---- MODULE Spec2Model ----
(***************************************************************************)
(* Compliance engine (server/src/utils/ComplianceEngine.ts): the rule      *)
(* evaluator, its logic handlers, validateContract and the two queries     *)
(* isPublicAdjustingAllowed and getMaximumFee, over a catalog of           *)
(* enforcement rules held by a document store.                             *)
(*                                                                         *)
(* Conventions.  An optional value (a field that may be undefined, a       *)
(* number that may be NaN) is a set with at most one element: {} is        *)
(* undefined / NaN.  Fee percentages and percentage thresholds are held    *)
(* in thousandths (0.125 is 125); amounts are whole dollars and products   *)
(* amount * percentage are thousandths of a dollar.  Strings are TLA+      *)
(* strings and are taken apart with Len and SubSeq.                        *)
(***************************************************************************)
EXTENDS Integers, Sequences, FiniteSets, TLC

(***************************************************************************)
(* Bounds of the model.                                                    *)
(***************************************************************************)
MaxRules == 2
NumCalls == 2

Calls == 1..NumCalls

(***************************************************************************)
(* JavaScript values and the string operations the engine uses.            *)
(***************************************************************************)
Has(o) == o # {}
Val(o) == CHOOSE v \in o : TRUE

LowerAlphabet == "abcdefghijklmnopqrstuvwxyz"
UpperAlphabet == "ABCDEFGHIJKLMNOPQRSTUVWXYZ"
Digits == "0123456789"

CharAt(s, i) == SubSeq(s, i, i)

\* position of character ch in alphabet, 0 when it is not there
IndexIn(alphabet, ch) ==
    IF \E i \in 1..Len(alphabet) : CharAt(alphabet, i) = ch
    THEN CHOOSE i \in 1..Len(alphabet) : CharAt(alphabet, i) = ch
    ELSE 0

RECURSIVE MapChars(_, _, _)
MapChars(s, from, to) ==
    IF Len(s) = 0 THEN ""
    ELSE LET ch == CharAt(s, 1)
             k  == IndexIn(from, ch)
         IN  (IF k = 0 THEN ch ELSE CharAt(to, k)) \o MapChars(Tail(s), from, to)

toUpperCase(s) == MapChars(s, LowerAlphabet, UpperAlphabet)
toLowerCase(s) == MapChars(s, UpperAlphabet, LowerAlphabet)

\* first position at which t occurs in s, 0 when it does not occur
IndexOf(s, t) ==
    LET starts == {i \in 1..(Len(s) - Len(t) + 1) : SubSeq(s, i, i + Len(t) - 1) = t}
    IN  IF starts = {} THEN 0
        ELSE CHOOSE i \in starts : \A j \in starts : i <= j

includes(s, t) == IndexOf(s, t) # 0

\* String.prototype.replace with a string pattern: the first occurrence only
replace(s, pat, by) ==
    LET k == IndexOf(s, pat)
    IN  IF k = 0 THEN s
        ELSE SubSeq(s, 1, k - 1) \o by \o SubSeq(s, k + Len(pat), Len(s))

\* s.split(sep)[0]
SplitHead(s, sep) ==
    LET k == IndexOf(s, sep)
    IN  IF k = 0 THEN s ELSE SubSeq(s, 1, k - 1)

IsDigit(ch) == IndexIn(Digits, ch) # 0

RECURSIVE DigitsPrefix(_)
DigitsPrefix(s) ==
    IF Len(s) = 0 \/ ~IsDigit(CharAt(s, 1)) THEN ""
    ELSE CharAt(s, 1) \o DigitsPrefix(Tail(s))

RECURSIVE DigitsValue(_, _)
DigitsValue(s, acc) ==
    IF Len(s) = 0 THEN acc
    ELSE DigitsValue(Tail(s), 10 * acc + (IndexIn(Digits, CharAt(s, 1)) - 1))

\* parseInt: the leading decimal digits, NaN when there are none
parseInt(s) ==
    LET d == DigitsPrefix(s)
    IN  IF Len(d) = 0 THEN {} ELSE {DigitsValue(d, 0)}

RECURSIVE join(_, _)
join(list, sep) ==
    IF Len(list) = 0 THEN ""
    ELSE IF Len(list) = 1 THEN list[1]
    ELSE list[1] \o sep \o join(Tail(list), sep)

\* a number of tenths printed as JavaScript prints it: 25 is "2.5", 120 is "12"
TenthsToString(t) ==
    IF t % 10 = 0 THEN ToString(t \div 10)
    ELSE ToString(t \div 10) \o "." \o ToString(t % 10)

\* (x * 100).toFixed(1) for x in thousandths
PercentFixed1(milli) ==
    LET abs == IF milli < 0 THEN -milli ELSE milli
    IN  (IF milli < 0 THEN "-" ELSE "") \o ToString(abs \div 10) \o "."
            \o ToString(abs % 10)

\* x.toFixed(2) for x in thousandths of a dollar
Fixed2(milli) ==
    LET cents == (milli + 5) \div 10
    IN  ToString(cents \div 100) \o "." \o ToString((cents % 100) \div 10)
                                 \o ToString(cents % 10)

\* a > b on numbers, false when either side is NaN
Gt(a, b) == Has(a) /\ Has(b) /\ Val(a) > Val(b)
Lt(a, b) == Has(a) /\ Has(b) /\ Val(a) < Val(b)
Ge(a, b) == Has(a) /\ Has(b) /\ Val(a) >= Val(b)

\* !x for an optional number (undefined, 0) and an optional string (undefined, '')
FalsyNum(o) == o = {} \/ o = {0}
FalsyStr(o) == o = {} \/ o = {""}
Truthy(o) == o = {TRUE}

(***************************************************************************)
(* Threshold payloads (thresholdValue is Schema.Types.Mixed): a number, a  *)
(* string, an array of strings, an object, or nothing at all.              *)
(***************************************************************************)
NoFields ==
    [standard |-> {}, emergency |-> {}, tier1_limit |-> {}, tier1_percent |-> {},
     tier2_percent |-> {}, restrictionHours |-> {}, triggerEvent |-> {},
     start |-> {}, end |-> {}]

TNumber(n)   == [kind |-> "number", num |-> n, str |-> "", list |-> <<>>, obj |-> NoFields]
TString(s)   == [kind |-> "string", num |-> 0, str |-> s, list |-> <<>>, obj |-> NoFields]
TArray(l)    == [kind |-> "array", num |-> 0, str |-> "", list |-> l, obj |-> NoFields]
TObject(o)   == [kind |-> "object", num |-> 0, str |-> "", list |-> <<>>, obj |-> o]
TUndefined   == [kind |-> "undefined", num |-> 0, str |-> "", list |-> <<>>, obj |-> NoFields]

Caps(std, emg) == TObject([NoFields EXCEPT !.standard = {std}, !.emergency = {emg}])
Scale(limit, p1, p2) ==
    TObject([NoFields EXCEPT !.tier1_limit = {limit}, !.tier1_percent = {p1},
                             !.tier2_percent = {p2}])
Window(s, e) == TObject([NoFields EXCEPT !.start = {s}, !.end = {e}])
Restriction(h, ev) ==
    TObject([NoFields EXCEPT !.restrictionHours = {h}, !.triggerEvent = {ev}])

\* reading a property of the payload raises a TypeError when the payload is
\* undefined; a number, a string or an array has none of the fields
PropThrows(t) == t.kind = "undefined"
Prop(t, f) == IF t.kind = "object" THEN t.obj[f] ELSE {}

\* the payload where a number is expected (the > operator converts it)
RECURSIVE AllDigits(_)
AllDigits(s) == Len(s) = 0 \/ (IsDigit(CharAt(s, 1)) /\ AllDigits(Tail(s)))

StringToNumber(s) ==
    IF Len(s) = 0 THEN {0}
    ELSE IF AllDigits(s) THEN {1000 * DigitsValue(s, 0)}
    ELSE {}

ToNumber(t) ==
    CASE t.kind = "number" -> {t.num}
      [] t.kind = "string" -> StringToNumber(t.str)
      [] t.kind = "array"  -> StringToNumber(join(t.list, ","))
      [] OTHER             -> {}

\* the payload inside a template literal
NumText(o) == IF Has(o) THEN ToString(Val(o)) ELSE "undefined"

PayloadText(t) ==
    CASE t.kind = "number" -> ToString(t.num)
      [] t.kind = "string" -> t.str
      [] t.kind = "array"  -> join(t.list, ",")
      [] t.kind = "object" -> "[object Object]"
      [] OTHER             -> "undefined"

(***************************************************************************)
(* Handler results: { violated, recommendedAction? }, or a raised          *)
(* TypeError.                                                              *)
(***************************************************************************)
Result(v, rec) == [violated |-> v, threw |-> FALSE, recommendedAction |-> rec]
NotViolated == Result(FALSE, {})
Threw == [violated |-> FALSE, threw |-> TRUE, recommendedAction |-> {}]

getRecommendedAction(stateCode, category) ==
    CASE stateCode = "AL" /\ category = "LICENSE_RESTRICTION" ->
            "Refer client to licensed Alabama attorney. Public adjusting is illegal (UPL)."
      [] stateCode = "AR" /\ category = "LICENSE_RESTRICTION" ->
            "Refer client to licensed Arkansas attorney. Public adjusting is illegal."
      [] stateCode = "KS" /\ category = "LICENSE_RESTRICTION" ->
            "Kansas only permits Commercial PA. For residential claims, refer to attorney."
      [] stateCode = "LA" /\ category = "FEE_STRUCTURE" ->
            "Convert to hourly or flat fee billing. Percentage fees are illegal in Louisiana."
      [] stateCode = "LA" /\ category = "UPL_PREVENTION" ->
            "Do not provide coverage opinions. Stick to scope and pricing only."
      [] OTHER -> "Contact state Department of Insurance for guidance."

\* a fee keyword that matches only the fee type of its own name
KeywordMatchesOwnFeeType(keyword, input) ==
    CASE keyword \in {"CONTRACT", "SOLICITATION", "NEGOTIATION", "REPRESENTATION"} ->
            input.actionType = {keyword}
      [] keyword \in {"RESIDENTIAL", "HOMEOWNER", "PERSONAL_LINES"} ->
            input.claimType = {"RESIDENTIAL"} \/ input.claimType = {"PERSONAL_LINES"}
      [] keyword \in {"PERCENTAGE", "CONTINGENCY"} ->
            input.feeType = {keyword}
      [] OTHER -> FALSE

KeywordMatches(keyword, input) ==
    CASE keyword \in {"CONTRACT", "SOLICITATION", "NEGOTIATION", "REPRESENTATION"} ->
            input.actionType = {keyword}
      [] keyword \in {"RESIDENTIAL", "HOMEOWNER", "PERSONAL_LINES"} ->
            input.claimType = {"RESIDENTIAL"} \/ input.claimType = {"PERSONAL_LINES"}
      [] keyword \in {"PERCENTAGE", "CONTINGENCY"} ->
            input.feeType = {"PERCENTAGE"} \/ input.feeType = {"CONTINGENCY"}
      [] OTHER -> FALSE

evaluateForbiddenKeyword(rule, input) ==
    LET keywords == rule.thresholdValue
    IN  IF keywords.kind # "array" THEN Threw
        ELSE Result(\E i \in 1..Len(keywords.list) : KeywordMatches(keywords.list[i], input),
                    {getRecommendedAction(rule.stateCode, rule.category)})

\* a ban that applies only to inputs that name the action
evaluateForbiddenActionNamed(rule, input) ==
    Result(Has(input.actionType),
           {"Refer client to licensed attorney in " \o rule.stateCode
            \o ". Public adjusting is illegal in this state."})

\* a ban that applies to solicitation only
evaluateForbiddenActionOnSolicitation(rule, input) ==
    Result(input.actionType = {"SOLICITATION"},
           {"Refer client to licensed attorney in " \o rule.stateCode
            \o ". Public adjusting is illegal in this state."})
evaluateForbiddenAction(rule, input) ==
    Result(TRUE, {"Refer client to licensed attorney in " \o rule.stateCode
                  \o ". Public adjusting is illegal in this state."})

evaluateForbiddenFeeType(rule, input) ==
    LET forbiddenTypes == rule.thresholdValue
        needle == IF FalsyStr(input.feeType) THEN "" ELSE Val(input.feeType)
        violated ==
            IF forbiddenTypes.kind = "array"
            THEN \E i \in 1..Len(forbiddenTypes.list) : forbiddenTypes.list[i] = needle
            ELSE includes(forbiddenTypes.str, needle)
    IN  IF forbiddenTypes.kind \notin {"array", "string"} THEN Threw
        ELSE Result(violated,
                    IF violated THEN {"Use HOURLY or FLAT_FEE billing structure only."}
                    ELSE {})

evaluateMaxPercentage(rule, input) ==
    LET maxPercent == ToNumber(rule.thresholdValue)
        violated == Gt(input.feePercentage, maxPercent)
    IN  IF FalsyNum(input.feePercentage) THEN NotViolated
        ELSE Result(violated,
                    IF violated
                    THEN {"Reduce fee to " \o PercentFixed1(Val(maxPercent))
                          \o "% or less to comply with " \o rule.stateCode \o " law."}
                    ELSE {})

\* a cap chosen by the emergency flag alone
evaluateDynamicCapEmergencyOnly(rule, input) ==
    LET caps == rule.thresholdValue
        applicableCap ==
            IF Truthy(input.isEmergency)
            THEN Prop(caps, "emergency") ELSE Prop(caps, "standard")
        violated == Gt(input.feePercentage, applicableCap)
    IN  IF FalsyNum(input.feePercentage) THEN NotViolated
        ELSE IF PropThrows(caps) THEN Threw
        ELSE Result(violated,
                    IF violated
                    THEN {"Reduce fee to " \o PercentFixed1(Val(applicableCap)) \o "% ("
                          \o (IF Truthy(input.isEmergency) THEN "emergency" ELSE "standard")
                          \o " cap for " \o rule.stateCode \o ")."}
                    ELSE {})
evaluateDynamicCap(rule, input) ==
    LET caps == rule.thresholdValue
        applicableCap ==
            IF Truthy(input.isEmergency) \/ Truthy(input.isDeclaredDisaster)
            THEN Prop(caps, "emergency") ELSE Prop(caps, "standard")
        violated == Gt(input.feePercentage, applicableCap)
    IN  IF FalsyNum(input.feePercentage) THEN NotViolated
        ELSE IF PropThrows(caps) THEN Threw
        ELSE Result(violated,
                    IF violated
                    THEN {"Reduce fee to " \o PercentFixed1(Val(applicableCap)) \o "% ("
                          \o (IF Truthy(input.isEmergency) THEN "emergency" ELSE "standard")
                          \o " cap for " \o rule.stateCode \o ")."}
                    ELSE {})

\* Math.min(claimAmount, tier1_limit) * tier1_percent
\*   + Math.max(0, claimAmount - tier1_limit) * tier2_percent, NaN when a field is missing
MaxAllowedFee(scale, claimAmount) ==
    LET limit == Prop(scale, "tier1_limit")
        p1 == Prop(scale, "tier1_percent")
        p2 == Prop(scale, "tier2_percent")
    IN  IF Has(limit) /\ Has(p1) /\ Has(p2)
        THEN LET lower == IF claimAmount < Val(limit) THEN claimAmount ELSE Val(limit)
                 over == IF claimAmount - Val(limit) > 0 THEN claimAmount - Val(limit) ELSE 0
             IN  {lower * Val(p1) + over * Val(p2)}
        ELSE {}

evaluateSlidingScale(rule, input) ==
    LET scale == rule.thresholdValue
        maxAllowedFee == MaxAllowedFee(scale, Val(input.claimAmount))
        violated == Has(maxAllowedFee) /\ 1000 * Val(input.feeAmount) > Val(maxAllowedFee)
    IN  IF FalsyNum(input.feeAmount) \/ FalsyNum(input.claimAmount) THEN NotViolated
        ELSE IF PropThrows(scale) THEN Threw
        ELSE Result(violated,
                    IF violated
                    THEN {"Maximum fee allowed: $" \o Fixed2(Val(maxAllowedFee)) \o " ("
                          \o TenthsToString(Val(Prop(scale, "tier1_percent")))
                          \o "% on first $" \o NumText(Prop(scale, "tier1_limit")) \o ", "
                          \o TenthsToString(Val(Prop(scale, "tier2_percent")))
                          \o "% on excess)."}
                    ELSE {})

\* a window that still admits the hour it ends at
evaluateTimeWindowClosed(rule, input) ==
    LET window == rule.thresholdValue
        start == Prop(window, "start")
        end == Prop(window, "end")
        hour == input.solicitationTime
        startHour == parseInt(SplitHead(Val(start), ":"))
        endHour == parseInt(SplitHead(Val(end), ":"))
        violated == Lt(hour, startHour) \/ Gt(hour, endHour)
    IN  IF input.actionType # {"SOLICITATION"} \/ input.solicitationTime = {}
        THEN NotViolated
        ELSE IF PropThrows(window) \/ ~Has(start) \/ ~Has(end) THEN Threw
        ELSE Result(violated,
                    IF violated
                    THEN {"Solicitation is only permitted between " \o Val(start) \o " and "
                          \o Val(end) \o " in " \o rule.stateCode \o "."}
                    ELSE {})

evaluateTimeWindow(rule, input) ==
    LET window == rule.thresholdValue
        start == Prop(window, "start")
        end == Prop(window, "end")
        hour == input.solicitationTime
        startHour == parseInt(SplitHead(Val(start), ":"))
        endHour == parseInt(SplitHead(Val(end), ":"))
        violated == Lt(hour, startHour) \/ Ge(hour, endHour)
    IN  IF input.actionType # {"SOLICITATION"} \/ input.solicitationTime = {}
        THEN NotViolated
        ELSE IF PropThrows(window) \/ ~Has(start) \/ ~Has(end) THEN Threw
        ELSE Result(violated,
                    IF violated
                    THEN {"Solicitation is only permitted between " \o Val(start) \o " and "
                          \o Val(end) \o " in " \o rule.stateCode \o "."}
                    ELSE {})

evaluateTimeBasedRestriction(rule, input) ==
    LET restriction == rule.thresholdValue
    IN  IF ~Truthy(input.isDeclaredDisaster) \/ input.actionType # {"SOLICITATION"}
        THEN NotViolated
        ELSE IF PropThrows(restriction) THEN Threw
        ELSE Result(TRUE, {"Wait " \o NumText(Prop(restriction, "restrictionHours"))
                           \o " hours after disaster declaration before soliciting in "
                           \o rule.stateCode \o "."})

LanguageFound(lang, contractLanguage) ==
    includes(toLowerCase(contractLanguage), replace(toLowerCase(lang), "_REQUIRED", ""))

evaluateLanguageRequirement(rule, input) ==
    LET requiredLanguages == rule.thresholdValue
        violated == ~\E i \in 1..Len(requiredLanguages.list) :
                        LanguageFound(requiredLanguages.list[i], Val(input.contractLanguage))
    IN  IF requiredLanguages.kind # "array" THEN Threw
        ELSE IF FalsyStr(input.contractLanguage)
        THEN Result(TRUE, {"Contract must be provided in "
                           \o join(requiredLanguages.list, " and ")
                           \o " for " \o rule.stateCode \o "."})
        ELSE Result(violated,
                    IF violated
                    THEN {"Provide contract in " \o join(requiredLanguages.list, " and ")
                          \o " for " \o rule.stateCode \o "."}
                    ELSE {})

evaluateRequiredDisclosure(rule, input) ==
    Result(FALSE, {"Ensure contract includes: " \o PayloadText(rule.thresholdValue)})

\* a cancellation period chosen by the emergency flag
evaluateDynamicRescissionByEmergency(rule, input) ==
    LET periods == rule.thresholdValue
        applicablePeriod ==
            IF Truthy(input.isEmergency)
            THEN Prop(periods, "emergency") ELSE Prop(periods, "standard")
    IN  IF PropThrows(periods) THEN Threw
        ELSE Result(FALSE, {"Include " \o NumText(applicablePeriod)
                            \o "-day cancellation period in contract for "
                            \o rule.stateCode \o "."})

evaluateDynamicRescission(rule, input) ==
    LET periods == rule.thresholdValue
        applicablePeriod ==
            IF Truthy(input.isDeclaredDisaster)
            THEN Prop(periods, "emergency") ELSE Prop(periods, "standard")
    IN  IF PropThrows(periods) THEN Threw
        ELSE Result(FALSE, {"Include " \o NumText(applicablePeriod)
                            \o "-day cancellation period in contract for "
                            \o rule.stateCode \o "."})

\* an evaluator that takes a rule it has no handler for as violated
evaluateRuleStrict(rule, input) ==
    IF rule.logicType \in {"FORBIDDEN_KEYWORD", "FORBIDDEN_FEE_TYPE", "MAX_PERCENTAGE",
                           "DYNAMIC_CAP", "SLIDING_SCALE", "TIME_WINDOW",
                           "TIME_BASED_RESTRICTION", "LANGUAGE_REQUIREMENT",
                           "REQUIRED_DISCLOSURE", "DYNAMIC_RESCISSION"}
    THEN CASE rule.logicType = "FORBIDDEN_KEYWORD"  -> evaluateForbiddenKeyword(rule, input)
           [] rule.logicType = "FORBIDDEN_FEE_TYPE" -> evaluateForbiddenFeeType(rule, input)
           [] rule.logicType = "MAX_PERCENTAGE"     -> evaluateMaxPercentage(rule, input)
           [] rule.logicType = "DYNAMIC_CAP"        -> evaluateDynamicCap(rule, input)
           [] rule.logicType = "SLIDING_SCALE"      -> evaluateSlidingScale(rule, input)
           [] rule.logicType = "TIME_WINDOW"        -> evaluateTimeWindow(rule, input)
           [] rule.logicType = "TIME_BASED_RESTRICTION" ->
                    evaluateTimeBasedRestriction(rule, input)
           [] rule.logicType = "LANGUAGE_REQUIREMENT" ->
                    evaluateLanguageRequirement(rule, input)
           [] rule.logicType = "REQUIRED_DISCLOSURE" -> evaluateRequiredDisclosure(rule, input)
           [] OTHER                                 -> evaluateDynamicRescission(rule, input)
    ELSE evaluateForbiddenAction(rule, input)

evaluateRule(rule, input) ==
    CASE rule.logicType = "FORBIDDEN_KEYWORD"      -> evaluateForbiddenKeyword(rule, input)
      [] rule.logicType = "FORBIDDEN_ACTION"       -> evaluateForbiddenAction(rule, input)
      [] rule.logicType = "FORBIDDEN_FEE_TYPE"     -> evaluateForbiddenFeeType(rule, input)
      [] rule.logicType = "MAX_PERCENTAGE"         -> evaluateMaxPercentage(rule, input)
      [] rule.logicType = "DYNAMIC_CAP"            -> evaluateDynamicCap(rule, input)
      [] rule.logicType = "SLIDING_SCALE"          -> evaluateSlidingScale(rule, input)
      [] rule.logicType = "TIME_WINDOW"            -> evaluateTimeWindow(rule, input)
      [] rule.logicType = "TIME_BASED_RESTRICTION" -> evaluateTimeBasedRestriction(rule, input)
      [] rule.logicType = "LANGUAGE_REQUIREMENT"   -> evaluateLanguageRequirement(rule, input)
      [] rule.logicType = "REQUIRED_DISCLOSURE"    -> evaluateRequiredDisclosure(rule, input)
      [] rule.logicType = "DYNAMIC_RESCISSION"     -> evaluateDynamicRescission(rule, input)
      [] OTHER                                     -> NotViolated

(***************************************************************************)
(* Rules, action inputs and the document store.                            *)
(***************************************************************************)
Severities == {"BLOCK_ACTION", "WARN_BLOCK", "WARN_CONTINUE", "INFO_ONLY", "WARNING_ONLY"}

HandledLogicTypes ==
    {"FORBIDDEN_KEYWORD", "FORBIDDEN_ACTION", "FORBIDDEN_FEE_TYPE", "MAX_PERCENTAGE",
     "DYNAMIC_CAP", "SLIDING_SCALE", "TIME_WINDOW", "TIME_BASED_RESTRICTION",
     "LANGUAGE_REQUIREMENT", "REQUIRED_DISCLOSURE", "DYNAMIC_RESCISSION"}

SchemaLogicTypes == HandledLogicTypes \cup {"FORBIDDEN_SERVICE", "EVENT_BASED_RESTRICTION"}

\* a rule document without its _id
RuleDoc(stateCode, category, isActive, logicType, thresholdValue, severity) ==
    [stateCode |-> stateCode, category |-> category,
     description |-> logicType \o " rule for " \o stateCode,
     isActive |-> isActive, logicType |-> logicType, thresholdValue |-> thresholdValue,
     severity |-> severity,
     errorMessage |-> category \o " violated in " \o stateCode,
     legalBasis |-> IF severity = "BLOCK_ACTION"
                    THEN {[statute |-> {"Ins. Code 626.854"},
                           consequences |-> {<<"license revocation">>}]}
                    ELSE {}]

\* the store gives every document its _id
WithIds(docs) ==
    [i \in 1..Len(docs) |->
        [id |-> i, stateCode |-> docs[i].stateCode, category |-> docs[i].category,
         description |-> docs[i].description, isActive |-> docs[i].isActive,
         logicType |-> docs[i].logicType, thresholdValue |-> docs[i].thresholdValue,
         severity |-> docs[i].severity, errorMessage |-> docs[i].errorMessage,
         legalBasis |-> docs[i].legalBasis]]

EmptyInput(stateCode) ==
    [stateCode |-> stateCode, claimType |-> {}, feeType |-> {}, feePercentage |-> {},
     feeAmount |-> {}, claimAmount |-> {}, isEmergency |-> {}, isDeclaredDisaster |-> {},
     contractLanguage |-> {}, actionType |-> {}, solicitationTime |-> {}]

\* rule.legalBasis?.statute
OptionalField(o, f) == IF o = {} THEN {} ELSE Val(o)[f]

\* findOne: the first document of the collection that matches
SelectFirst(docs, Test(_)) ==
    LET found == SelectSeq(docs, Test)
    IN  IF Len(found) = 0 THEN {} ELSE {found[1]}

\* a find in which rules of the state shadow the DEFAULT_GREEN rules
FindRulesShadowing(docs, stateCode, applyActive) ==
    LET own == SelectSeq(docs, LAMBDA r :
                   r.stateCode = toUpperCase(stateCode) /\ (applyActive => r.isActive))
    IN  IF Len(own) > 0 THEN own
        ELSE SelectSeq(docs, LAMBDA r :
                 r.stateCode = "DEFAULT_GREEN" /\ (applyActive => r.isActive))

\* ComplianceRule.find({ $or: [{stateCode: CODE}, {stateCode: "DEFAULT_GREEN"}],
\*                       isActive: true })
\* applyActive: whether the store applies the isActive condition of the query
FindRules(docs, stateCode, applyActive) ==
    SelectSeq(docs, LAMBDA r :
        /\ r.stateCode \in {toUpperCase(stateCode), "DEFAULT_GREEN"}
        /\ (applyActive => r.isActive))

\* a lookup that takes a license restriction of any severity for a ban
FindBlockingRuleAnySeverity(docs, stateCode, applyActive) ==
    SelectFirst(docs, LAMBDA r :
        /\ r.stateCode = toUpperCase(stateCode)
        /\ r.category = "LICENSE_RESTRICTION"
        /\ (applyActive => r.isActive))

\* a lookup that examines the first document of the collection only
FindBlockingRuleFirstOnly(docs, stateCode, applyActive) ==
    SelectFirst(IF docs = <<>> THEN docs ELSE <<Head(docs)>>, LAMBDA r :
        /\ r.stateCode = toUpperCase(stateCode)
        /\ r.category = "LICENSE_RESTRICTION"
        /\ r.severity = "BLOCK_ACTION"
        /\ (applyActive => r.isActive))

\* ComplianceRule.findOne({ stateCode, category: 'LICENSE_RESTRICTION',
\*                          severity: 'BLOCK_ACTION', isActive: true })
FindBlockingRule(docs, stateCode, applyActive) ==
    SelectFirst(docs, LAMBDA r :
        /\ r.stateCode = toUpperCase(stateCode)
        /\ r.category = "LICENSE_RESTRICTION"
        /\ r.severity = "BLOCK_ACTION"
        /\ (applyActive => r.isActive))

\* ComplianceRule.findOne({ stateCode, category: 'FEE_CAP', isActive: true })
FindFeeRule(docs, stateCode, applyActive) ==
    SelectFirst(docs, LAMBDA r :
        /\ r.stateCode = toUpperCase(stateCode)
        /\ r.category = "FEE_CAP"
        /\ (applyActive => r.isActive))

(***************************************************************************)
(* The entries validateContract pushes.                                    *)
(***************************************************************************)
Violation(rule, res) ==
    [ruleId |-> ToString(rule.id), stateCode |-> rule.stateCode,
     category |-> rule.category, severity |-> rule.severity,
     errorMessage |-> rule.errorMessage,
     legalBasis |-> OptionalField(rule.legalBasis, "statute"),
     consequences |-> OptionalField(rule.legalBasis, "consequences"),
     recommendedAction |-> res.recommendedAction]

Warning(rule, res) ==
    [ruleId |-> ToString(rule.id), stateCode |-> rule.stateCode,
     category |-> rule.category, message |-> rule.errorMessage,
     recommendedAction |-> res.recommendedAction]

\* the tests of rule.severity in the loop of validateContract
IsViolationSeverityBlockOnly(severity) == severity = "BLOCK_ACTION"
IsViolationSeverity(severity) == severity = "BLOCK_ACTION" \/ severity = "WARN_BLOCK"
IsWarningSeverity(severity) == severity = "WARN_CONTINUE" \/ severity = "INFO_ONLY"
IsBlockingSeverityAnyViolation(severity) ==
    severity = "BLOCK_ACTION" \/ severity = "WARN_BLOCK"
IsBlockingSeverity(severity) == severity = "BLOCK_ACTION"

\* a verdict whose violations are sorted by severity, the blocking ones first
VerdictSortedBySeverity(viol, warn, blocked) ==
    [isValid |-> Len(viol) = 0,
     violations |-> SelectSeq(viol, LAMBDA v : v.severity = "BLOCK_ACTION")
                        \o SelectSeq(viol, LAMBDA v : v.severity # "BLOCK_ACTION"),
     warnings |-> warn, blockedActions |-> blocked]

\* a verdict that takes warnings for violations
VerdictCountingWarnings(viol, warn, blocked) ==
    [isValid |-> Len(viol) = 0 /\ Len(warn) = 0, violations |-> viol, warnings |-> warn,
     blockedActions |-> blocked]

Verdict(viol, warn, blocked) ==
    [isValid |-> Len(viol) = 0, violations |-> viol, warnings |-> warn,
     blockedActions |-> blocked]

(***************************************************************************)
(* isPublicAdjustingAllowed and getMaximumFee once their findOne resolved. *)
(***************************************************************************)
AllowedAnswer(blockingRule) ==
    IF Has(blockingRule)
    THEN [allowed |-> FALSE, reason |-> {Val(blockingRule).errorMessage}]
    ELSE [allowed |-> TRUE, reason |-> {}]

DefaultMaxPercentage == 330

\* a number as a quotient num / den of thousandths; NaN is {}
Quotient(num, den) == IF den = 0 THEN {} ELSE {[num |-> num, den |-> den]}
Times(amount, q) == IF Has(q) THEN {(amount * Val(q).num) \div Val(q).den} ELSE {}
Whole(o) == IF Has(o) THEN Quotient(Val(o), 1) ELSE {}

FeeAnswer(maxPercentage, maxAmount, notes) ==
    [maxPercentage |-> maxPercentage, maxAmount |-> maxAmount, notes |-> notes]

MaximumFeeThrows(feeRule, claimAmount, isEmergency) ==
    /\ Has(feeRule)
    /\ Val(feeRule).logicType \in {"DYNAMIC_CAP", "SLIDING_SCALE"}
    /\ PropThrows(Val(feeRule).thresholdValue)

MaximumFee(feeRule, claimAmount, isEmergency) ==
    IF ~Has(feeRule)
    THEN FeeAnswer(Quotient(DefaultMaxPercentage, 1),
                   {claimAmount * DefaultMaxPercentage},
                   {"Standard reasonableness cap (no statutory limit)"})
    ELSE LET rule == Val(feeRule)
             t == rule.thresholdValue
         IN  CASE rule.logicType = "MAX_PERCENTAGE" ->
                    FeeAnswer(Whole(ToNumber(t)), Times(claimAmount, Whole(ToNumber(t))),
                              {rule.description})
               [] rule.logicType = "DYNAMIC_CAP" ->
                    LET cap == IF isEmergency THEN Prop(t, "emergency")
                               ELSE Prop(t, "standard")
                    IN  FeeAnswer(Whole(cap), Times(claimAmount, Whole(cap)),
                                  {rule.description})
               [] rule.logicType = "SLIDING_SCALE" ->
                    LET total == MaxAllowedFee(t, claimAmount)
                    IN  FeeAnswer(IF Has(total) THEN Quotient(Val(total), claimAmount) ELSE {},
                                  total,
                                  {"Sliding scale: "
                                   \o (IF Has(Prop(t, "tier1_percent"))
                                       THEN TenthsToString(Val(Prop(t, "tier1_percent")))
                                       ELSE "NaN")
                                   \o "% up to $" \o NumText(Prop(t, "tier1_limit")) \o ", "
                                   \o (IF Has(Prop(t, "tier2_percent"))
                                       THEN TenthsToString(Val(Prop(t, "tier2_percent")))
                                       ELSE "NaN")
                                   \o "% above"})
               [] OTHER ->
                    FeeAnswer(Quotient(DefaultMaxPercentage, 1),
                              {claimAmount * DefaultMaxPercentage}, {rule.description})

(***************************************************************************)
(* Catalogs and action inputs the engine is run on.                        *)
(***************************************************************************)
Opt(S) == {{}} \cup {{x} : x \in S}

ClaimTypes == {"RESIDENTIAL", "COMMERCIAL", "PERSONAL_LINES"}
FeeTypes == {"PERCENTAGE", "HOURLY", "FLAT_FEE", "CONTINGENCY"}
ActionTypes == {"CONTRACT", "SOLICITATION", "NEGOTIATION", "REPRESENTATION"}

LogicTypes == SchemaLogicTypes \cup {"GEOFENCE_RESTRICTION"}

CategoryOf(logicType) ==
    CASE logicType \in {"FORBIDDEN_KEYWORD", "FORBIDDEN_ACTION"} -> "LICENSE_RESTRICTION"
      [] logicType = "FORBIDDEN_FEE_TYPE" -> "FEE_STRUCTURE"
      [] logicType \in {"MAX_PERCENTAGE", "DYNAMIC_CAP", "SLIDING_SCALE"} -> "FEE_CAP"
      [] logicType = "TIME_WINDOW" -> "SOLICITATION"
      [] logicType \in {"TIME_BASED_RESTRICTION", "EVENT_BASED_RESTRICTION"} ->
            "CATASTROPHE_RESTRICTION"
      [] logicType = "LANGUAGE_REQUIREMENT" -> "CONTRACT_REQUIREMENT"
      [] logicType \in {"REQUIRED_DISCLOSURE", "DYNAMIC_RESCISSION"} -> "RESCISSION"
      [] logicType = "FORBIDDEN_SERVICE" -> "UPL_PREVENTION"
      [] OTHER -> "SCOPE_OF_PRACTICE"

\* payloads of the shape the logic type expects
WellFormed(logicType) ==
    CASE logicType = "FORBIDDEN_KEYWORD" ->
            {TArray(<<"CONTRACT">>), TArray(<<"RESIDENTIAL">>),
             TArray(<<"PERCENTAGE", "CONTINGENCY">>), TArray(<<"HOMEOWNER", "SOLICITATION">>),
             TArray(<<"PERCENTAGE">>),
             TArray(<<"LEGAL_ADVICE">>), TArray(<<>>)}
      [] logicType = "FORBIDDEN_FEE_TYPE" ->
            {TArray(<<"CONTINGENCY", "PERCENTAGE">>), TArray(<<"HOURLY">>)}
      [] logicType = "MAX_PERCENTAGE" ->
            {TNumber(100), TNumber(125), TNumber(0), TNumber(-50)}
      [] logicType = "DYNAMIC_CAP" -> {Caps(200, 100), Caps(100, 200), Caps(0, 100)}
      [] logicType = "SLIDING_SCALE" -> {Scale(25000, 25, 120)}
      [] logicType = "TIME_WINDOW" -> {Window("08:00", "20:00"), Window("9:30", "17:00")}
      [] logicType = "TIME_BASED_RESTRICTION" -> {Restriction(72, "DISASTER_DECLARATION")}
      [] logicType = "LANGUAGE_REQUIREMENT" ->
            {TArray(<<"SPANISH_REQUIRED">>), TArray(<<"SPANISH">>),
             TArray(<<"English", "Spanish">>)}
      [] logicType = "REQUIRED_DISCLOSURE" -> {TString("3-day right to cancel")}
      [] logicType = "DYNAMIC_RESCISSION" -> {Caps(3, 7)}
      [] OTHER -> {TArray(<<"LEGAL_ADVICE">>)}

\* payloads of some other shape
OtherShapes(logicType) ==
    {TNumber(5), TString("PERCENTAGE"), TArray(<<"08:00">>), TObject(NoFields), TUndefined}
        \ WellFormed(logicType)

\* payloads of the expected shape with an element no catalog is meant to hold
Unusual(logicType) ==
    IF logicType = "FORBIDDEN_FEE_TYPE" THEN {TArray(<<"", "CONTINGENCY">>)} ELSE {}

ExpectsShape(logicType) ==
    logicType \in HandledLogicTypes \ {"FORBIDDEN_ACTION", "REQUIRED_DISCLOSURE"}

IsMalformed(rule) ==
    /\ ExpectsShape(rule.logicType)
    /\ rule.thresholdValue \in OtherShapes(rule.logicType)

KeywordInputs ==
    {[EmptyInput("FL") EXCEPT !.claimType = ct, !.feeType = ft, !.actionType = at] :
        ct \in Opt(ClaimTypes), ft \in Opt(FeeTypes), at \in Opt(ActionTypes)}

FeeInputs ==
    {[EmptyInput("FL") EXCEPT !.feePercentage = fp, !.isEmergency = em,
                              !.isDeclaredDisaster = dd] :
        fp \in Opt({0, 100, 101, 150, 250}), em \in Opt(BOOLEAN), dd \in Opt(BOOLEAN)}

AmountInputs ==
    {[EmptyInput("FL") EXCEPT !.feeAmount = fa, !.claimAmount = ca] :
        fa \in Opt({0, 625, 626, 9625, 9626}), ca \in Opt({0, 25000, 100000})}

TimeInputs ==
    {[EmptyInput("FL") EXCEPT !.actionType = at, !.solicitationTime = h,
                              !.isDeclaredDisaster = dd] :
        at \in Opt({"SOLICITATION", "CONTRACT"}), h \in Opt({0, 7, 8, 19, 20}),
        dd \in Opt(BOOLEAN)}

LanguageInputs ==
    {[EmptyInput("FL") EXCEPT !.contractLanguage = cl] :
        cl \in Opt({"", "Spanish", "English", "es"})}

RelevantInputs(logicType) ==
    CASE logicType = "FORBIDDEN_KEYWORD" -> KeywordInputs
      [] logicType = "FORBIDDEN_FEE_TYPE" -> KeywordInputs
      [] logicType \in {"MAX_PERCENTAGE", "DYNAMIC_CAP"} -> FeeInputs
      [] logicType = "SLIDING_SCALE" -> AmountInputs
      [] logicType \in {"TIME_WINDOW", "TIME_BASED_RESTRICTION", "DYNAMIC_RESCISSION"} ->
            TimeInputs
      [] logicType = "LANGUAGE_REQUIREMENT" -> LanguageInputs
      [] OTHER -> KeywordInputs \cup FeeInputs \cup AmountInputs \cup TimeInputs
                    \cup LanguageInputs

\* a rule of the requested state for every logic type and payload
HandlerRules ==
    UNION {{RuleDoc("FL", CategoryOf(lt), TRUE, lt, t, sev) :
                t \in WellFormed(lt) \cup Unusual(lt) \cup OtherShapes(lt),
                sev \in {"BLOCK_ACTION", "WARN_CONTINUE"}} : lt \in LogicTypes}

\* a rule that fires on every input
TotalBan == RuleDoc("DEFAULT_GREEN", "SCOPE_OF_PRACTICE", TRUE, "FORBIDDEN_ACTION",
                    TArray(<<"ALL">>), "WARN_BLOCK")

\* rules that differ in state, activity and severity: the requested state's
\* active rules in every severity, firing always or by the fee; the inactive,
\* foreign and default rules firing always
OrchestratorRules ==
    {RuleDoc("FL", CategoryOf(lt), TRUE, lt,
             IF lt = "MAX_PERCENTAGE" THEN TNumber(100) ELSE TArray(<<"ALL">>), sev) :
        lt \in {"FORBIDDEN_ACTION", "MAX_PERCENTAGE"}, sev \in Severities}
    \cup {RuleDoc("DEFAULT_GREEN", "LICENSE_RESTRICTION", TRUE, "FORBIDDEN_ACTION",
                  TArray(<<"ALL">>), sev) : sev \in Severities}
    \cup {RuleDoc(sa[1], "LICENSE_RESTRICTION", sa[2], "FORBIDDEN_ACTION",
                  TArray(<<"ALL">>), sev) :
            sa \in {<<"FL", FALSE>>, <<"TX", TRUE>>},
            sev \in {"BLOCK_ACTION", "WARN_CONTINUE"}}

OrchestratorInputs ==
    {[EmptyInput(code) EXCEPT !.feePercentage = fp] :
        code \in {"FL", "fl"}, fp \in Opt({150})}

\* rules the two queries look for, next to rules they must pass over
LicenseRules ==
    {RuleDoc(st, cat, act, "FORBIDDEN_ACTION", TArray(<<"ALL">>), sev) :
        st \in {"FL", "TX", "DEFAULT_GREEN"}, cat \in {"LICENSE_RESTRICTION", "FEE_STRUCTURE"},
        act \in BOOLEAN, sev \in {"BLOCK_ACTION", "WARN_BLOCK"}}

FeeRules ==
    {RuleDoc("FL", "FEE_CAP", TRUE, prog[1], prog[2], "WARN_BLOCK") :
        prog \in {<<"MAX_PERCENTAGE", TNumber(100)>>, <<"DYNAMIC_CAP", Caps(200, 100)>>,
                  <<"SLIDING_SCALE", Scale(25000, 25, 120)>>,
                  <<"DYNAMIC_CAP", TUndefined>>,
                  <<"REQUIRED_DISCLOSURE", TString("fee schedule")>>}}
    \cup {RuleDoc(sa[1], "FEE_CAP", sa[2], "MAX_PERCENTAGE", TNumber(100), "WARN_BLOCK") :
            sa \in {<<"FL", FALSE>>, <<"TX", TRUE>>}}

AllowedInputs == {EmptyInput(code) : code \in {"FL", "fl"}}

MaximumFeeInputs ==
    {[EmptyInput(code) EXCEPT !.claimAmount = {ca}, !.isEmergency = em] :
        code \in {"FL", "fl"}, ca \in {0, 25000, 100000}, em \in Opt(BOOLEAN)}

\* a catalog and calls that run side by side on it
SharedCatalogs ==
    {<<RuleDoc("FL", "LICENSE_RESTRICTION", TRUE, "FORBIDDEN_ACTION", TArray(<<"ALL">>),
               "BLOCK_ACTION"),
       RuleDoc("DEFAULT_GREEN", "FEE_CAP", TRUE, "MAX_PERCENTAGE", TNumber(100),
               "WARN_CONTINUE")>>,
     <<RuleDoc("TX", "FEE_CAP", TRUE, "DYNAMIC_CAP", Caps(200, 100), "WARN_BLOCK"),
       RuleDoc("FL", "FEE_CAP", TRUE, "FORBIDDEN_KEYWORD", TNumber(5), "BLOCK_ACTION")>>}

SharedInputs ==
    {[EmptyInput(code) EXCEPT !.feePercentage = {150}, !.claimAmount = {25000}] :
        code \in {"FL", "TX"}}

EntryPoints == {"validateContract", "isPublicAdjustingAllowed", "getMaximumFee"}

RECURSIVE SeqsUpTo(_, _)
SeqsUpTo(S, n) ==
    IF n = 0 THEN {<<>>}
    ELSE LET shorter == SeqsUpTo(S, n - 1)
         IN  shorter \cup {Append(q, x) : q \in shorter, x \in S}

OnlyFirst(v, none) == [c \in Calls |-> IF c = 1 THEN v ELSE none]

(***************************************************************************)
(* The state: the store, and every call of the engine with its locals.     *)
(***************************************************************************)
VARIABLES
    store,           \* the rule documents of the store, in their natural order
    filtering,       \* whether the store applies the isActive condition of a query
    op,              \* op[c]: the entry point call c runs
    input,           \* input[c]: its argument
    pc,              \* pc[c]: "unused", "start", "loop", "returned", "rejected"
    query,           \* query[c]: the promise of its find / findOne: "pending",
                     \*   "resolved", "rejected"
    rules,           \* rules[c]: the result of its find
    idx,             \* idx[c]: the rule the for loop is at
    violations,      \* violations[c], warnings[c], blockedActions[c]: its locals
    warnings,
    blockedActions,
    result           \* result[c]: the value the promise resolved to, {} before

vars == <<store, filtering, op, input, pc, query, rules, idx, violations, warnings,
          blockedActions, result>>

\* the state before any call has run: the catalog in the store and, for each
\* call, its entry point and argument
InitRun(docs, ops, inputs, filters) ==
    /\ store = WithIds(docs)
    /\ filtering = filters
    /\ op = ops
    /\ input = inputs
    /\ pc = [c \in Calls |-> IF ops[c] = "none" THEN "unused" ELSE "start"]
    /\ query = [c \in Calls |-> "pending"]
    /\ rules = [c \in Calls |-> <<>>]
    /\ idx = [c \in Calls |-> 0]
    /\ violations = [c \in Calls |-> <<>>]
    /\ warnings = [c \in Calls |-> <<>>]
    /\ blockedActions = [c \in Calls |-> <<>>]
    /\ result = [c \in Calls |-> {}]

\* one rule, alone or next to a rule that always fires, on the inputs its handler reads
InitHandlers(filters) ==
    \E r \in HandlerRules :
        \E docs \in {<<r>>, <<r, TotalBan>>, <<TotalBan, r>>} :
            \E in \in RelevantInputs(r.logicType) :
                InitRun(docs, OnlyFirst("validateContract", "none"),
                        OnlyFirst(in, EmptyInput("")), filters)

\* catalogs of rules of several states, severities and activity
InitOrchestrator(filters) ==
    \E docs \in SeqsUpTo(OrchestratorRules, MaxRules) :
        \E in \in OrchestratorInputs :
            InitRun(docs, OnlyFirst("validateContract", "none"),
                    OnlyFirst(in, EmptyInput("")), filters)

\* the two queries over catalogs of the rules they look for
InitQueries(filters) ==
    \/ \E docs \in SeqsUpTo(LicenseRules, MaxRules) :
           \E in \in AllowedInputs :
               InitRun(docs, OnlyFirst("isPublicAdjustingAllowed", "none"),
                       OnlyFirst(in, EmptyInput("")), filters)
    \/ \E docs \in SeqsUpTo(FeeRules, MaxRules) :
           \E in \in MaximumFeeInputs :
               InitRun(docs, OnlyFirst("getMaximumFee", "none"),
                       OnlyFirst(in, EmptyInput("")), filters)

\* every call in use, on one catalog
InitConcurrent(filters) ==
    \E docs \in SharedCatalogs :
        \E ops \in [Calls -> EntryPoints] :
            \E inputs \in [Calls -> SharedInputs] :
                InitRun(docs, ops, inputs, filters)

\* the store applies the queries' conditions as MongoDB does
Init ==
    \/ InitHandlers(TRUE)
    \/ InitOrchestrator(TRUE)
    \/ InitQueries(TRUE)
    \/ InitConcurrent(TRUE)

\* a query and a validation side by side on one catalog, about one state
ComparedLicenseRules == {r \in LicenseRules : r.category = "LICENSE_RESTRICTION"}

InitCompared ==
    \/ \E docs \in SeqsUpTo(FeeRules, MaxRules) :
         \E em \in Opt(BOOLEAN) : \E dd \in Opt(BOOLEAN) : \E fp \in {100, 200} :
           LET in1 == [EmptyInput("FL") EXCEPT !.claimAmount = {25000}, !.isEmergency = em]
               in2 == [EmptyInput("FL") EXCEPT !.feePercentage = {fp}, !.isEmergency = em,
                                               !.isDeclaredDisaster = dd]
               ops == [c \in Calls |-> IF c = 1 THEN "getMaximumFee"
                                       ELSE IF c = 2 THEN "validateContract" ELSE "none"]
               inputs == [c \in Calls |-> IF c = 1 THEN in1
                                          ELSE IF c = 2 THEN in2 ELSE EmptyInput("")]
           IN  InitRun(docs, ops, inputs, TRUE)
    \/ \E docs \in SeqsUpTo(ComparedLicenseRules, MaxRules) :
         \E code1 \in {"FL", "fl"} : \E code2 \in {"FL", "fl"} :
           LET ops == [c \in Calls |-> IF c = 1 THEN "isPublicAdjustingAllowed"
                                       ELSE IF c = 2 THEN "validateContract" ELSE "none"]
               inputs == [c \in Calls |-> IF c = 1 THEN EmptyInput(code1)
                                          ELSE IF c = 2 THEN EmptyInput(code2)
                                          ELSE EmptyInput("")]
           IN  InitRun(docs, ops, inputs, TRUE)

\* a store that may hand back documents without applying the isActive condition
InitAnyStore ==
    \E filters \in BOOLEAN :
        \/ InitOrchestrator(filters)
        \/ InitQueries(filters)
        \/ InitConcurrent(filters)

\* a fetch that keeps its result in one place shared by every call
FetchRulesShared(c) ==
    /\ pc[c] = "start"
    /\ op[c] = "validateContract"
    /\ rules' = [d \in Calls |-> FindRules(store, input[c].stateCode, filtering)]
    /\ idx' = [idx EXCEPT ![c] = 1]
    /\ pc' = [pc EXCEPT ![c] = "loop"]
    /\ query' = [query EXCEPT ![c] = "resolved"]
    /\ UNCHANGED <<store, filtering, op, input, violations, warnings, blockedActions, result>>
\* await ComplianceRule.find(...) resolves
FetchRules(c) ==
    /\ pc[c] = "start"
    /\ op[c] = "validateContract"
    /\ rules' = [rules EXCEPT ![c] = FindRules(store, input[c].stateCode, filtering)]
    /\ idx' = [idx EXCEPT ![c] = 1]
    /\ pc' = [pc EXCEPT ![c] = "loop"]
    /\ query' = [query EXCEPT ![c] = "resolved"]
    /\ UNCHANGED <<store, filtering, op, input, violations, warnings, blockedActions, result>>

\* a failed query caught and answered as if nothing had been found
FetchFailsSwallowed(c) ==
    /\ pc[c] = "start"
    /\ query' = [query EXCEPT ![c] = "rejected"]
    /\ pc' = [pc EXCEPT ![c] = "returned"]
    /\ result' = [result EXCEPT ![c] =
                    CASE op[c] = "validateContract" -> {Verdict(<<>>, <<>>, <<>>)}
                      [] op[c] = "isPublicAdjustingAllowed" -> {AllowedAnswer({})}
                      [] OTHER -> {MaximumFee({}, Val(input[c].claimAmount),
                                              Truthy(input[c].isEmergency))}]
    /\ UNCHANGED <<store, filtering, op, input, rules, idx, violations, warnings,
                   blockedActions>>

\* await ComplianceRule.find(...) or findOne(...) rejects: no try/catch, the
\* promise of the call rejects
FetchFails(c) ==
    /\ pc[c] = "start"
    /\ query' = [query EXCEPT ![c] = "rejected"]
    /\ pc' = [pc EXCEPT ![c] = "rejected"]
    /\ UNCHANGED <<store, filtering, op, input, rules, idx, violations, warnings,
                   blockedActions, result>>

\* one pass of the for loop: await this.evaluateRule(rule, input), then the pushes
EvaluateNextRule(c) ==
    /\ pc[c] = "loop"
    /\ idx[c] <= Len(rules[c])
    /\ LET rule == rules[c][idx[c]]
           res == evaluateRule(rule, input[c])
       IN  IF res.threw
           THEN /\ pc' = [pc EXCEPT ![c] = "rejected"]
                /\ UNCHANGED <<idx, violations, warnings, blockedActions>>
           ELSE /\ pc' = pc
                /\ idx' = [idx EXCEPT ![c] = idx[c] + 1]
                /\ violations' =
                     [violations EXCEPT ![c] =
                        IF res.violated /\ IsViolationSeverity(rule.severity)
                        THEN Append(violations[c], Violation(rule, res))
                        ELSE violations[c]]
                /\ blockedActions' =
                     [blockedActions EXCEPT ![c] =
                        IF res.violated /\ IsViolationSeverity(rule.severity)
                                        /\ IsBlockingSeverity(rule.severity)
                        THEN Append(blockedActions[c], rule.category)
                        ELSE blockedActions[c]]
                /\ warnings' =
                     [warnings EXCEPT ![c] =
                        IF res.violated /\ ~IsViolationSeverity(rule.severity)
                                        /\ IsWarningSeverity(rule.severity)
                        THEN Append(warnings[c], Warning(rule, res))
                        ELSE warnings[c]]
    /\ UNCHANGED <<store, filtering, op, input, query, rules, result>>

\* a return that looks the rules of its entries up again and drops the entries
\* of rules the store no longer holds as active
ReturnVerdictRefetching(c) ==
    /\ pc[c] = "loop"
    /\ idx[c] > Len(rules[c])
    /\ LET stillActive(entry) ==
               \E i \in 1..Len(store) :
                   ToString(store[i].id) = entry.ruleId /\ store[i].isActive
       IN  result' = [result EXCEPT ![c] =
                        {Verdict(SelectSeq(violations[c], stillActive),
                                 SelectSeq(warnings[c], stillActive), blockedActions[c])}]
    /\ pc' = [pc EXCEPT ![c] = "returned"]
    /\ UNCHANGED <<store, filtering, op, input, query, rules, idx, violations, warnings,
                   blockedActions>>

\* the return after the loop
ReturnVerdict(c) ==
    /\ pc[c] = "loop"
    /\ idx[c] > Len(rules[c])
    /\ result' = [result EXCEPT ![c] =
                    {Verdict(violations[c], warnings[c], blockedActions[c])}]
    /\ pc' = [pc EXCEPT ![c] = "returned"]
    /\ UNCHANGED <<store, filtering, op, input, query, rules, idx, violations, warnings,
                   blockedActions>>

isPublicAdjustingAllowed(c) ==
    /\ pc[c] = "start"
    /\ op[c] = "isPublicAdjustingAllowed"
    /\ result' = [result EXCEPT ![c] =
                    {AllowedAnswer(FindBlockingRule(store, input[c].stateCode, filtering))}]
    /\ pc' = [pc EXCEPT ![c] = "returned"]
    /\ query' = [query EXCEPT ![c] = "resolved"]
    /\ UNCHANGED <<store, filtering, op, input, rules, idx, violations, warnings,
                   blockedActions>>

getMaximumFee(c) ==
    /\ pc[c] = "start"
    /\ op[c] = "getMaximumFee"
    /\ LET feeRule == FindFeeRule(store, input[c].stateCode, filtering)
           claimAmount == Val(input[c].claimAmount)
           isEmergency == Truthy(input[c].isEmergency)
       IN  IF MaximumFeeThrows(feeRule, claimAmount, isEmergency)
           THEN /\ pc' = [pc EXCEPT ![c] = "rejected"]
                /\ UNCHANGED result
           ELSE /\ pc' = [pc EXCEPT ![c] = "returned"]
                /\ result' = [result EXCEPT ![c] =
                                {MaximumFee(feeRule, claimAmount, isEmergency)}]
    /\ query' = [query EXCEPT ![c] = "resolved"]
    /\ UNCHANGED <<store, filtering, op, input, rules, idx, violations, warnings,
                   blockedActions>>

Next ==
    \E c \in Calls :
        \/ FetchRules(c)
        \/ FetchFails(c)
        \/ EvaluateNextRule(c)
        \/ ReturnVerdict(c)
        \/ isPublicAdjustingAllowed(c)
        \/ getMaximumFee(c)

Spec == Init /\ [][Next]_vars

AnyStoreSpec == InitAnyStore /\ [][Next]_vars

ComparedSpec == InitCompared /\ [][Next]_vars

(***************************************************************************)
(* The catalog changing under calls that have fetched and not yet          *)
(* returned: a rule is deactivated, edited or added in the store, once.    *)
(***************************************************************************)
\* some call is between its fetch and its return, and the store is still the
\* catalog the calls started on
MidCall ==
    /\ \E c \in Calls : op[c] = "validateContract" /\ pc[c] = "loop"
    /\ \A i \in 1..Len(store) :
          /\ store[i].isActive
          /\ store[i].severity # "INFO_ONLY"
          /\ store[i].category # TotalBan.category

DeactivateRule ==
    /\ MidCall
    /\ \E i \in 1..Len(store) : store' = [store EXCEPT ![i].isActive = FALSE]
    /\ UNCHANGED <<filtering, op, input, pc, query, rules, idx, violations, warnings,
                   blockedActions, result>>

EditRule ==
    /\ MidCall
    /\ \E i \in 1..Len(store) : store' = [store EXCEPT ![i].severity = "INFO_ONLY"]
    /\ UNCHANGED <<filtering, op, input, pc, query, rules, idx, violations, warnings,
                   blockedActions, result>>

AddRule ==
    /\ MidCall
    /\ store' = Append(store, [WithIds(<<TotalBan>>)[1] EXCEPT !.id = Len(store) + 1])
    /\ UNCHANGED <<filtering, op, input, pc, query, rules, idx, violations, warnings,
                   blockedActions, result>>

\* every call is a validateContract, on one catalog
InitValidating ==
    \E docs \in SharedCatalogs :
        \E inputs \in [Calls -> SharedInputs] :
            InitRun(docs, [c \in Calls |-> "validateContract"], inputs, TRUE)

NextChanging ==
    \/ \E c \in Calls :
            \/ FetchRules(c)
            \/ FetchFails(c)
            \/ EvaluateNextRule(c)
            \/ ReturnVerdict(c)
    \/ DeactivateRule
    \/ EditRule
    \/ AddRule

ChangingStoreSpec == InitValidating /\ [][NextChanging]_vars

(***************************************************************************)
(* What a call has done so far, for the properties below.                  *)
(***************************************************************************)
Validating(c) == op[c] = "validateContract" /\ pc[c] \in {"loop", "returned"}
Returned(c) == op[c] = "validateContract" /\ pc[c] = "returned"

\* the rules the loop of call c is through with
Evaluated(c) == IF Validating(c) THEN 1..(idx[c] - 1) ELSE {}

\* the evaluator reported rule i of the fetched rules as fired
Fired(c, i) == evaluateRule(rules[c][i], input[c]).violated

\* the entries of a list that were pushed for rule r
EntriesFor(list, r) == {k \in 1..Len(list) : list[k].ruleId = ToString(r.id)}

Elements(list) == {list[k] : k \in 1..Len(list)}

\* C1: every rule the evaluator reports as fired has exactly one entry, in
\* exactly one of violations and warnings, whatever severity it carries.
C1_FiredRulesPartitioned ==
    \A c \in Calls : \A i \in Evaluated(c) :
        Fired(c, i) =>
            Cardinality(EntriesFor(violations[c], rules[c][i]))
                + Cardinality(EntriesFor(warnings[c], rules[c][i])) = 1

\* C2: in every verdict returned by validateContract, isValid is true exactly
\* when the violations list is empty, that is exactly when no fetched rule fired
\* with severity BLOCK_ACTION or WARN_BLOCK; warnings alone leave it valid.
C2_IsValidIffNoViolations ==
    \A c \in Calls :
        Returned(c) =>
            LET v == Val(result[c])
            IN  /\ v.violations = violations[c]
                /\ v.isValid = (Len(v.violations) = 0)
                /\ v.isValid = ~\E i \in 1..Len(rules[c]) :
                                    /\ Fired(c, i)
                                    /\ rules[c][i].severity \in {"BLOCK_ACTION", "WARN_BLOCK"}

\* a verdict that carries warnings only, and is valid
C2_Witness ==
    \E c \in Calls :
        /\ Returned(c)
        /\ Len(Val(result[c]).warnings) > 0
        /\ Len(Val(result[c]).violations) = 0
        /\ Val(result[c]).isValid

\* C3: a fired rule of severity BLOCK_ACTION or WARN_BLOCK has an entry in
\* violations with its category and severity; a fired rule of severity
\* WARN_CONTINUE or INFO_ONLY has an entry in warnings and none in violations;
\* a rule that did not fire has no entry in either list.
C3_ClassifiedBySeverity ==
    \A c \in Calls : \A i \in Evaluated(c) :
        LET rule == rules[c][i]
            inViolations == EntriesFor(violations[c], rule)
            inWarnings == EntriesFor(warnings[c], rule)
        IN  /\ (Fired(c, i) /\ rule.severity \in {"BLOCK_ACTION", "WARN_BLOCK"}) =>
                \E k \in inViolations :
                    /\ violations[c][k].category = rule.category
                    /\ violations[c][k].severity = rule.severity
            /\ (Fired(c, i) /\ rule.severity \in {"WARN_CONTINUE", "INFO_ONLY"}) =>
                inWarnings # {} /\ inViolations = {}
            /\ ~Fired(c, i) => inWarnings = {} /\ inViolations = {}

\* a verdict built from a fired WARN_BLOCK rule and a fired warning rule
C3_Witness ==
    \E c \in Calls :
        /\ Returned(c)
        /\ \E i \in Evaluated(c) : Fired(c, i) /\ rules[c][i].severity = "WARN_BLOCK"
        /\ \E i \in Evaluated(c) : Fired(c, i) /\ rules[c][i].severity = "INFO_ONLY"

\* C4: in every verdict a category is in blockedActions exactly when a rule of
\* that category fired with severity BLOCK_ACTION, and every category in
\* blockedActions is the category of an entry of violations.
C4_BlockedActionsExact ==
    \A c \in Calls :
        Returned(c) =>
            LET v == Val(result[c])
                blocking == {i \in 1..Len(rules[c]) :
                                Fired(c, i) /\ rules[c][i].severity = "BLOCK_ACTION"}
            IN  /\ Elements(v.blockedActions) = {rules[c][i].category : i \in blocking}
                /\ \A cat \in Elements(v.blockedActions) :
                        \E k \in 1..Len(v.violations) : v.violations[k].category = cat

\* a verdict whose fired WARN_BLOCK rule is a violation of a category that is
\* not blocked, next to a blocked category
C4_Witness ==
    \E c \in Calls :
        /\ Returned(c)
        /\ Val(result[c]).blockedActions # <<>>
        /\ \E k \in 1..Len(Val(result[c]).violations) :
                /\ Val(result[c]).violations[k].severity = "WARN_BLOCK"
                /\ Val(result[c]).violations[k].category
                        \notin Elements(Val(result[c]).blockedActions)

\* the rules of the store the call selects and the evaluator reports as fired,
\* for a requested code as the store is asked for it
Contributing(c, code) ==
    {r \in Elements(store) :
        /\ r.isActive
        /\ r.stateCode \in {code, "DEFAULT_GREEN"}
        /\ evaluateRule(r, input[c]).violated}

RuleIds(entries) == {e.ruleId : e \in Elements(entries)}

VerdictFrom(c, code) ==
    LET v == Val(result[c])
    IN  /\ RuleIds(v.violations) =
              {ToString(r.id) : r \in {x \in Contributing(c, code) :
                                          x.severity \in {"BLOCK_ACTION", "WARN_BLOCK"}}}
        /\ RuleIds(v.warnings) =
              {ToString(r.id) : r \in {x \in Contributing(c, code) :
                                          x.severity \in {"WARN_CONTINUE", "INFO_ONLY"}}}

C6_InactiveRulesNeverEvaluated ==
    \A c \in Calls :
        /\ \A i \in Evaluated(c) : rules[c][i].isActive
        /\ \A r \in Elements(store) :
              ~r.isActive =>
                  EntriesFor(violations[c], r) = {} /\ EntriesFor(warnings[c], r) = {}

\* C7: a call whose catalog query failed ends rejected; it resolves to no
\* verdict, no allowed answer and no fallback fee.
C7_FetchFailurePropagates ==
    \A c \in Calls : query[c] = "rejected" => pc[c] = "rejected" /\ result[c] = {}

\* a validateContract call whose find was rejected
C7_Witness ==
    \E c \in Calls : query[c] = "rejected" /\ op[c] = "validateContract"

\* C8: a rule whose payload has not the shape its logic type expects does not
\* fire and does not abort validateContract.
C8_MalformedPayloadTolerated ==
    \A c \in Calls :
        op[c] = "validateContract" =>
            /\ ~(pc[c] = "rejected" /\ query[c] = "resolved")
            /\ \A i \in Evaluated(c) : IsMalformed(rules[c][i]) => ~Fired(c, i)

\* the input field a keyword tag is matched against
KeywordField(keyword) ==
    CASE keyword \in {"CONTRACT", "SOLICITATION", "NEGOTIATION", "REPRESENTATION"} ->
            {"actionType"}
      [] keyword \in {"RESIDENTIAL", "HOMEOWNER", "PERSONAL_LINES"} -> {"claimType"}
      [] keyword \in {"PERCENTAGE", "CONTINGENCY"} -> {"feeType"}
      [] OTHER -> {}

\* the input fields a handler reads
FieldsRead(rule) ==
    CASE rule.logicType = "FORBIDDEN_KEYWORD" ->
            UNION {KeywordField(rule.thresholdValue.list[k]) :
                        k \in 1..Len(rule.thresholdValue.list)}
      [] rule.logicType = "FORBIDDEN_FEE_TYPE" -> {"feeType"}
      [] rule.logicType = "MAX_PERCENTAGE" -> {"feePercentage"}
      [] rule.logicType = "DYNAMIC_CAP" ->
            {"feePercentage", "isEmergency", "isDeclaredDisaster"}
      [] rule.logicType = "SLIDING_SCALE" -> {"feeAmount", "claimAmount"}
      [] rule.logicType = "TIME_WINDOW" -> {"solicitationTime", "actionType"}
      [] rule.logicType = "TIME_BASED_RESTRICTION" -> {"isDeclaredDisaster", "actionType"}
      [] rule.logicType = "LANGUAGE_REQUIREMENT" -> {"contractLanguage"}
      [] rule.logicType = "DYNAMIC_RESCISSION" -> {"isDeclaredDisaster"}
      [] OTHER -> {}

\* the handler of the rule reads a field the input does not carry; a keyword
\* rule matches each tag against one field, and lacks its data when every field
\* its tags are matched against is absent
ReadsAbsentField(rule, in) ==
    IF rule.logicType = "FORBIDDEN_KEYWORD"
    THEN FieldsRead(rule) # {} /\ \A f \in FieldsRead(rule) : in[f] = {}
    ELSE \E f \in FieldsRead(rule) : in[f] = {}

\* C9: a handler other than LANGUAGE_REQUIREMENT that reads an input field
\* which is absent returns not fired, without raising; so an input of a state
\* code alone makes no rule of the seven fee, keyword and time types fire.
C9_AbsentFieldNeverFires ==
    \A c \in Calls :
        op[c] = "validateContract" =>
            \A i \in 1..Len(rules[c]) :
                LET rule == rules[c][i]
                    res == evaluateRule(rule, input[c])
                IN  (/\ ~IsMalformed(rule)
                     /\ rule.logicType # "LANGUAGE_REQUIREMENT"
                     /\ ReadsAbsentField(rule, input[c]))
                        => ~res.violated /\ ~res.threw

\* C10: a rule whose logicType has no handler is reported as not fired for
\* every input and never aborts the call; it has no entry in any verdict,
\* whatever its severity.
C10_UnknownLogicTypeNeverFires ==
    \A c \in Calls :
        op[c] = "validateContract" =>
            \A i \in 1..Len(rules[c]) :
                rules[c][i].logicType \notin HandledLogicTypes =>
                    /\ EntriesFor(violations[c], rules[c][i]) = {}
                    /\ EntriesFor(warnings[c], rules[c][i]) = {}
                    /\ rules[c][i].category \in Elements(blockedActions[c]) =>
                          \E j \in Evaluated(c) \ {i} :
                              /\ rules[c][j].category = rules[c][i].category
                              /\ rules[c][j].logicType \in HandledLogicTypes
                              /\ rules[c][j].severity = "BLOCK_ACTION"
                              /\ Fired(c, j)
                    /\ ~(pc[c] = "rejected" /\ query[c] = "resolved" /\ idx[c] = i)

\* a verdict returned after a BLOCK_ACTION rule of a logic type of the schema
\* that has no handler was evaluated
C10_Witness ==
    \E c \in Calls :
        /\ Returned(c)
        /\ \E i \in Evaluated(c) :
              /\ rules[c][i].logicType = "FORBIDDEN_SERVICE"
              /\ rules[c][i].severity = "BLOCK_ACTION"
        /\ input[c].actionType = {"CONTRACT"}

\* the fields of an action input other than the jurisdiction code are all absent
OnlyStateCode(in) == in = EmptyInput(in.stateCode)

\* C11: a FORBIDDEN_ACTION rule fires for every action input, whatever its
\* threshold payload and whatever fields the input carries: once the loop is
\* through with it, it has been reported as fired without raising, and it has
\* its entry in violations or warnings according to its severity.
C11_ForbiddenActionAlwaysFires ==
    \A c \in Calls : \A i \in Evaluated(c) :
        LET rule == rules[c][i]
            res == evaluateRule(rule, input[c])
        IN  rule.logicType = "FORBIDDEN_ACTION" =>
                /\ res.violated /\ ~res.threw
                /\ rule.severity \in {"BLOCK_ACTION", "WARN_BLOCK"} =>
                        EntriesFor(violations[c], rule) # {}
                /\ rule.severity \in {"WARN_CONTINUE", "INFO_ONLY"} =>
                        EntriesFor(warnings[c], rule) # {}

\* a FORBIDDEN_ACTION rule without a threshold payload was evaluated on an
\* input with every optional field absent, and is in the verdict
C11_Witness ==
    \E c \in Calls :
        /\ Returned(c)
        /\ OnlyStateCode(input[c])
        /\ \E i \in Evaluated(c) :
              /\ rules[c][i].logicType = "FORBIDDEN_ACTION"
              /\ rules[c][i].thresholdValue = TUndefined
              /\ EntriesFor(Val(result[c]).violations, rules[c][i]) # {}

\* the rules call c fetched that are total bans of the given severities
Bans(c, severities) ==
    {i \in 1..Len(rules[c]) : /\ rules[c][i].logicType = "FORBIDDEN_ACTION"
                              /\ rules[c][i].severity \in severities}

\* C12 as stated: whenever the fetched rules contain any FORBIDDEN_ACTION rule,
\* the verdict for an input with actionType CONTRACT is invalid and holds that
\* rule's category in blockedActions.
C12_AnyBanBlocksContract ==
    \A c \in Calls :
        (Returned(c) /\ input[c].actionType = {"CONTRACT"}) =>
            \A i \in Bans(c, Severities) :
                /\ ~Val(result[c]).isValid
                /\ rules[c][i].category \in Elements(Val(result[c]).blockedActions)

\* C12: whenever the fetched rules contain a FORBIDDEN_ACTION rule of severity
\* BLOCK_ACTION, every verdict returned for an input with actionType CONTRACT
\* is invalid and holds that rule's category in blockedActions; a ban of
\* severity WARN_BLOCK makes the verdict invalid.
C12_BlockingBanBlocksContract ==
    \A c \in Calls :
        (Returned(c) /\ input[c].actionType = {"CONTRACT"}) =>
            /\ \A i \in Bans(c, {"BLOCK_ACTION"}) :
                  /\ ~Val(result[c]).isValid
                  /\ rules[c][i].category \in Elements(Val(result[c]).blockedActions)
            /\ \A i \in Bans(c, {"WARN_BLOCK"}) : ~Val(result[c]).isValid

\* a verdict for a CONTRACT input over a BLOCK_ACTION ban
C12_Witness ==
    \E c \in Calls :
        /\ Returned(c)
        /\ input[c].actionType = {"CONTRACT"}
        /\ Bans(c, {"BLOCK_ACTION"}) # {}
        /\ ~Val(result[c]).isValid

\* the rules call c is through with that have the given logic type and a
\* payload of the given kind
EvaluatedOf(c, logicType, kind) ==
    {i \in Evaluated(c) : /\ rules[c][i].logicType = logicType
                          /\ rules[c][i].thresholdValue.kind = kind}

\* C13: a MAX_PERCENTAGE rule fires if and only if the fee percentage is
\* present and strictly greater than the cap, for every cap value, caps of
\* zero and below included: a fee equal to the cap and an absent fee never fire.
C13_MaxPercentageFiresIffAbove ==
    \A c \in Calls : \A i \in EvaluatedOf(c, "MAX_PERCENTAGE", "number") :
        Fired(c, i) <=> /\ Has(input[c].feePercentage)
                        /\ Val(input[c].feePercentage) > rules[c][i].thresholdValue.num

\* the remediation texts of the entries pushed for rule r by call c
RemediationsFor(c, r) ==
    UNION ({violations[c][k].recommendedAction : k \in EntriesFor(violations[c], r)}
           \cup {warnings[c][k].recommendedAction : k \in EntriesFor(warnings[c], r)})

TieredMaximum(claimAmount, scale) ==
    LET limit == Val(scale.tier1_limit)
        tier1 == (IF claimAmount < limit THEN claimAmount ELSE limit)
                    * Val(scale.tier1_percent)
        tier2 == (IF claimAmount > limit THEN claimAmount - limit ELSE 0)
                    * Val(scale.tier2_percent)
    IN  tier1 + tier2

\* C15: a SLIDING_SCALE rule fires if and only if fee amount and claim amount
\* are both present and the fee amount is greater than the tiered maximum
\* min(claimAmount, tier1Limit) * tier1Percent
\*   + max(0, claimAmount - tier1Limit) * tier2Percent.
C15_SlidingScaleFiresIffAboveTieredMaximum ==
    \A c \in Calls : \A i \in EvaluatedOf(c, "SLIDING_SCALE", "object") :
        LET scale == rules[c][i].thresholdValue.obj
        IN  (Has(scale.tier1_limit) /\ Has(scale.tier1_percent) /\ Has(scale.tier2_percent))
                => (Fired(c, i) <=>
                        /\ Has(input[c].feeAmount)
                        /\ Has(input[c].claimAmount)
                        /\ 1000 * Val(input[c].feeAmount)
                                > TieredMaximum(Val(input[c].claimAmount), scale))

\* C16: a FORBIDDEN_FEE_TYPE rule fires if and only if the input's fee type is
\* present and is a member of the rule's list; an absent fee type never fires,
\* for any list.
C16_ForbiddenFeeTypeFiresIffMember ==
    \A c \in Calls : \A i \in EvaluatedOf(c, "FORBIDDEN_FEE_TYPE", "array") :
        Fired(c, i) <=> /\ Has(input[c].feeType)
                        /\ Val(input[c].feeType)
                                \in Elements(rules[c][i].thresholdValue.list)

\* call c is a getMaximumFee that has returned
FeeReturned(c) == op[c] = "getMaximumFee" /\ pc[c] = "returned"

\* the active FEE_CAP rules the store holds for the jurisdiction call c asks
\* about, by position, and the one a findOne comes upon first
ActiveFeeCaps(c) ==
    {i \in 1..Len(store) : /\ store[i].isActive
                           /\ store[i].category = "FEE_CAP"
                           /\ store[i].stateCode = toUpperCase(input[c].stateCode)}

FoundFeeCap(c) == store[CHOOSE i \in ActiveFeeCaps(c) : \A j \in ActiveFeeCaps(c) : i <= j]

\* C17: without an active FEE_CAP rule getMaximumFee returns 0.33, 33% of the
\* claim amount and the note of the unregulated ceiling; no result derived
\* from a found rule carries the default 0.33 cap or that note.
C17_FallbackDistinguishable ==
    \A c \in Calls :
        FeeReturned(c) =>
            LET res == Val(result[c])
                fallback == /\ res.maxPercentage = {[num |-> 330, den |-> 1]}
                            /\ res.maxAmount = {Val(input[c].claimAmount) * 330}
                note == res.notes = {"Standard reasonableness cap (no statutory limit)"}
            IN  IF ActiveFeeCaps(c) = {} THEN fallback /\ note
                ELSE res.maxPercentage # {[num |-> 330, den |-> 1]} /\ ~note

\* amount = claimAmount * q for a quotient q, which is a whole number of
\* thousandths or a number of thousandths of a dollar by the claim amount
IsProduct(amount, claimAmount, q) ==
    IF q.den = 1 THEN amount = claimAmount * q.num
    ELSE q.den = claimAmount /\ q.num = amount

\* C18: getMaximumFee reads the found FEE_CAP rule by its logic type:
\* MAX_PERCENTAGE gives the cap, DYNAMIC_CAP the emergency cap under
\* isEmergency and the standard cap otherwise, SLIDING_SCALE the tiered maximum
\* as maxAmount and its quotient by the claim amount as maxPercentage; and for
\* every claim amount maxAmount = claimAmount * maxPercentage.
C18_FeeReadByLogicType ==
    \A c \in Calls :
        (FeeReturned(c) /\ ActiveFeeCaps(c) # {}) =>
            LET res == Val(result[c])
                rule == FoundFeeCap(c)
                t == rule.thresholdValue
                claimAmount == Val(input[c].claimAmount)
            IN  /\ (rule.logicType = "MAX_PERCENTAGE" /\ t.kind = "number") =>
                        res.maxPercentage = {[num |-> t.num, den |-> 1]}
                /\ (rule.logicType = "DYNAMIC_CAP" /\ t.kind = "object") =>
                        res.maxPercentage =
                            {[num |-> Val(IF input[c].isEmergency = {TRUE}
                                          THEN t.obj.emergency ELSE t.obj.standard),
                              den |-> 1]}
                /\ (rule.logicType = "SLIDING_SCALE" /\ t.kind = "object") =>
                        res.maxAmount = {TieredMaximum(claimAmount, t.obj)}
                /\ /\ Has(res.maxPercentage) /\ Has(res.maxAmount)
                   /\ IsProduct(Val(res.maxAmount), claimAmount, Val(res.maxPercentage))

\* the active BLOCK_ACTION license restrictions the store holds for the
\* jurisdiction call c asks about
ActiveLicenseBans(c) ==
    {i \in 1..Len(store) : /\ store[i].isActive
                           /\ store[i].category = "LICENSE_RESTRICTION"
                           /\ store[i].severity = "BLOCK_ACTION"
                           /\ store[i].stateCode = toUpperCase(input[c].stateCode)}

\* C19: isPublicAdjustingAllowed returns allowed = false, with the error
\* message of the rule it found as reason, exactly when the catalog holds an
\* active rule of the jurisdiction with category LICENSE_RESTRICTION and
\* severity BLOCK_ACTION; otherwise allowed = true and no reason. Inactive
\* rules and rules of other severities, categories or jurisdictions never
\* make it false.
C19_AllowedUnlessActiveLicenseBan ==
    \A c \in Calls :
        (op[c] = "isPublicAdjustingAllowed" /\ pc[c] = "returned") =>
            LET res == Val(result[c])
            IN  IF ActiveLicenseBans(c) # {}
                THEN /\ ~res.allowed
                     /\ \E i \in ActiveLicenseBans(c) : res.reason = {store[i].errorMessage}
                ELSE res.allowed /\ res.reason = {}

\* the query answered allowed = false after passing over the first rule of the
\* catalog, which is no active ban of the jurisdiction
C19_Witness ==
    \E c \in Calls :
        /\ op[c] = "isPublicAdjustingAllowed" /\ pc[c] = "returned"
        /\ ~Val(result[c]).allowed
        /\ Len(store) > 1
        /\ 1 \notin ActiveLicenseBans(c)

\* the position among the fetched rules of the rule an entry was pushed for
PositionOf(c, entry) == CHOOSE i \in 1..Len(rules[c]) : ToString(rules[c][i].id) = entry.ruleId

\* the entries of a list stand in the order of the rules they were pushed for
InCatalogOrder(c, list) ==
    \A k1, k2 \in 1..Len(list) :
        k1 < k2 => PositionOf(c, list[k1]) < PositionOf(c, list[k2])

\* C20: the entries of violations and of warnings of a verdict appear in the
\* order in which their rules were returned by the catalog; the lists are not
\* re-sorted by severity.
C20_CatalogOrderPreserved ==
    \A c \in Calls :
        Returned(c) => /\ InCatalogOrder(c, Val(result[c]).violations)
                       /\ InCatalogOrder(c, Val(result[c]).warnings)

\* a verdict that lists a WARN_BLOCK violation before a BLOCK_ACTION violation
C20_Witness ==
    \E c \in Calls :
        /\ Returned(c)
        /\ Len(Val(result[c]).violations) >= 2
        /\ Val(result[c]).violations[1].severity = "WARN_BLOCK"
        /\ Val(result[c]).violations[2].severity = "BLOCK_ACTION"

\* the locals of a validateContract that runs alone over the rules rs, none of
\* which raises, after its loop is through with them
RECURSIVE RunAlone(_, _)
RunAlone(rs, in) ==
    IF Len(rs) = 0 THEN [violations |-> <<>>, warnings |-> <<>>, blockedActions |-> <<>>]
    ELSE LET before == RunAlone(SubSeq(rs, 1, Len(rs) - 1), in)
             rule == rs[Len(rs)]
             res == evaluateRule(rule, in)
             isViolation == res.violated /\ IsViolationSeverity(rule.severity)
         IN  [violations |-> IF isViolation
                             THEN Append(before.violations, Violation(rule, res))
                             ELSE before.violations,
              warnings |-> IF res.violated /\ ~isViolation /\ IsWarningSeverity(rule.severity)
                           THEN Append(before.warnings, Warning(rule, res))
                           ELSE before.warnings,
              blockedActions |-> IF isViolation /\ IsBlockingSeverity(rule.severity)
                                 THEN Append(before.blockedActions, rule.category)
                                 ELSE before.blockedActions]

\* the locals of call c are those of a run alone over the first n of the rules rs
LocalsAsAlone(c, rs, n) ==
    LET alone == RunAlone(SubSeq(rs, 1, n), input[c])
    IN  /\ violations[c] = alone.violations
        /\ warnings[c] = alone.warnings
        /\ blockedActions[c] = alone.blockedActions

\* the value call c returned is the verdict of a run alone over the rules rs
VerdictAsAlone(c, rs) ==
    LET alone == RunAlone(rs, input[c])
    IN  result[c] = {Verdict(alone.violations, alone.warnings, alone.blockedActions)}

\* C21: validateContract calls interleaved at their suspension points each
\* stand, at every suspension point, where a call run alone on the same catalog
\* and input stands, and each returns the verdict of that run alone; no step of
\* any call changes the catalog or an input.
C21_InterleavedCallsAsAlone ==
    /\ [](\A c \in Calls :
            LET alone == FindRules(store, input[c].stateCode, filtering)
            IN  /\ Validating(c) => /\ rules[c] = alone
                                    /\ LocalsAsAlone(c, alone, idx[c] - 1)
                /\ Returned(c) => VerdictAsAlone(c, alone))
    /\ [][store' = store /\ input' = input]_vars

\* two calls for different jurisdictions are both between two suspension
\* points of their loops, each with entries of its own
C21_Witness ==
    \E c, d \in Calls :
        /\ c # d
        /\ op[c] = "validateContract" /\ op[d] = "validateContract"
        /\ pc[c] = "loop" /\ pc[d] = "loop"
        /\ idx[c] > 1 /\ idx[d] > 1
        /\ input[c].stateCode # input[d].stateCode
        /\ violations[c] # <<>> /\ violations[d] = <<>> /\ warnings[d] # <<>>

\* C22: a validateContract call fetches the catalog exactly once, before it
\* evaluates any rule: its rules are set by the one step that leaves the start
\* of the call, from the store as it is then, and never again; whatever is
\* deactivated, edited or added in the store afterwards, its locals and its
\* verdict are those of a run over the rules it fetched.
C22_OneFetchOneSnapshot ==
    /\ [][\A c \in Calls :
            /\ pc'[c] = "start" => pc[c] = "start"
            /\ rules'[c] # rules[c] =>
                  /\ pc[c] = "start" /\ pc'[c] = "loop"
                  /\ rules'[c] = FindRules(store, input[c].stateCode, filtering)]_vars
    /\ [](\A c \in Calls :
            /\ Validating(c) => LocalsAsAlone(c, rules[c], idx[c] - 1)
            /\ Returned(c) => VerdictAsAlone(c, rules[c]))

\* a verdict that holds a violation of a rule deactivated in the store after
\* the fetch
C22_Witness ==
    \E c \in Calls :
        /\ Returned(c)
        /\ \E i \in 1..Len(rules[c]) :
              /\ EntriesFor(Val(result[c]).violations, rules[c][i]) # {}
              /\ ~store[rules[c][i].id].isActive

\* the tags of the list of rule i of call c that match the input of the call:
\* an action tag the action type of its name, a claim tag a residential or
\* personal-lines claim, a fee tag the fee types feeTypes(tag)
MatchingTags(c, i, feeTypes(_)) ==
    {tag \in Elements(rules[c][i].thresholdValue.list) :
        \/ /\ tag \in {"CONTRACT", "SOLICITATION", "NEGOTIATION", "REPRESENTATION"}
           /\ input[c].actionType = {tag}
        \/ /\ tag \in {"RESIDENTIAL", "HOMEOWNER", "PERSONAL_LINES"}
           /\ input[c].claimType \in {{"RESIDENTIAL"}, {"PERSONAL_LINES"}}
        \/ /\ tag \in {"PERCENTAGE", "CONTINGENCY"}
           /\ \E ft \in feeTypes(tag) : input[c].feeType = {ft}}

\* C23 as stated: a FORBIDDEN_KEYWORD rule fires if and only if a listed tag
\* matches, where a fee tag matches when the fee type is the listed tag.
C23_FeeTagMatchesItsOwnType ==
    \A c \in Calls : \A i \in EvaluatedOf(c, "FORBIDDEN_KEYWORD", "array") :
        Fired(c, i) <=> MatchingTags(c, i, LAMBDA tag : {tag}) # {}

\* C23: a FORBIDDEN_KEYWORD rule fires if and only if a listed tag matches: an
\* action tag when the action type equals it, a claim tag when the claim type
\* is residential or personal-lines, a fee tag (PERCENTAGE or CONTINGENCY) when
\* the fee type is PERCENTAGE or CONTINGENCY, whichever of the two is listed;
\* any other tag and any absent field match nothing.
C23_KeywordFiresOnTagGroups ==
    \A c \in Calls : \A i \in EvaluatedOf(c, "FORBIDDEN_KEYWORD", "array") :
        Fired(c, i) <=>
            MatchingTags(c, i, LAMBDA tag : {"PERCENTAGE", "CONTINGENCY"}) # {}

\* a rule that lists PERCENTAGE alone is in the verdict for a CONTINGENCY fee
C23_Witness ==
    \E c \in Calls :
        /\ Returned(c)
        /\ input[c].feeType = {"CONTINGENCY"}
        /\ \E i \in Evaluated(c) :
              /\ rules[c][i].logicType = "FORBIDDEN_KEYWORD"
              /\ rules[c][i].thresholdValue = TArray(<<"PERCENTAGE">>)
              /\ RemediationsFor(c, rules[c][i]) # {}

\* the language a required-language tag stands for, in lower case:
\* SPANISH_REQUIRED stands for spanish
LanguageOf(tag) == toLowerCase(replace(toUpperCase(tag), "_REQUIRED", ""))

\* C24: a LANGUAGE_REQUIREMENT rule fires if and only if the contract language
\* is absent, or present but contains none of the languages its tags stand
\* for, compared without regard to case; a contract in one of the required
\* languages never makes the rule fire.
C24_LanguageFiresIffNoRequiredLanguage ==
    \A c \in Calls : \A i \in EvaluatedOf(c, "LANGUAGE_REQUIREMENT", "array") :
        LET tags == rules[c][i].thresholdValue.list
            contractLanguage == input[c].contractLanguage
        IN  Fired(c, i) <=>
                \/ ~Has(contractLanguage)
                \/ \A k \in 1..Len(tags) :
                        ~includes(toLowerCase(Val(contractLanguage)), LanguageOf(tags[k]))

\* the hour an hour string such as "08:00" or "9:30" names
HourOf(text) == Val(parseInt(SplitHead(text, ":")))

\* C25: a TIME_WINDOW rule fires if and only if the action type is
\* SOLICITATION and the solicitation hour lies outside [start, end): the hour
\* start does not fire, the hour end fires; other actions and solicitations
\* without a timestamp never fire.
C25_TimeWindowHalfOpen ==
    \A c \in Calls : \A i \in EvaluatedOf(c, "TIME_WINDOW", "object") :
        LET window == rules[c][i].thresholdValue.obj
            hour == input[c].solicitationTime
        IN  (Has(window.start) /\ Has(window.end)) =>
                (Fired(c, i) <=>
                    /\ input[c].actionType = {"SOLICITATION"}
                    /\ Has(hour)
                    /\ \/ Val(hour) < HourOf(Val(window.start))
                       \/ Val(hour) >= HourOf(Val(window.end)))

\* a solicitation at 20 h under the window 08:00 to 20:00 is in the verdict
C25_Witness ==
    \E c \in Calls :
        /\ Returned(c)
        /\ input[c].actionType = {"SOLICITATION"}
        /\ input[c].solicitationTime = {20}
        /\ \E i \in Evaluated(c) :
              /\ rules[c][i].logicType = "TIME_WINDOW"
              /\ rules[c][i].thresholdValue = Window("08:00", "20:00")
              /\ RemediationsFor(c, rules[c][i]) # {}

\* C26: REQUIRED_DISCLOSURE and DYNAMIC_RESCISSION rules never fire, whatever
\* the input and the severity: they have no entry in violations or warnings
\* and do not make a verdict invalid; their handlers return the remediation
\* text all the same, the disclosure text, respectively the emergency
\* day-count when declaredDisaster is set and the standard day-count otherwise.
C26_InformationalRulesNeverFire ==
    \A c \in Calls : \A i \in Evaluated(c) :
        LET rule == rules[c][i]
            t == rule.thresholdValue
            res == evaluateRule(rule, input[c])
            text == Val(res.recommendedAction)
        IN  rule.logicType \in {"REQUIRED_DISCLOSURE", "DYNAMIC_RESCISSION"} =>
                /\ ~res.violated
                /\ EntriesFor(violations[c], rule) = {}
                /\ EntriesFor(warnings[c], rule) = {}
                /\ (Returned(c) /\ Len(rules[c]) = 1) =>
                        Val(result[c]).isValid /\ Val(result[c]).blockedActions = <<>>
                /\ (rule.logicType = "REQUIRED_DISCLOSURE" /\ t.kind = "string") =>
                        Has(res.recommendedAction) /\ includes(text, t.str)
                /\ (rule.logicType = "DYNAMIC_RESCISSION" /\ t.kind = "object"
                        /\ Has(t.obj.standard) /\ Has(t.obj.emergency)) =>
                        /\ Has(res.recommendedAction)
                        /\ includes(text,
                              ToString(Val(IF input[c].isDeclaredDisaster = {TRUE}
                                           THEN t.obj.emergency ELSE t.obj.standard))
                                \o "-day")

\* a valid verdict over a BLOCK_ACTION rescission rule alone, for a declared
\* disaster
C26_Witness ==
    \E c \in Calls :
        /\ Returned(c)
        /\ Len(rules[c]) = 1
        /\ rules[c][1].logicType = "DYNAMIC_RESCISSION"
        /\ rules[c][1].thresholdValue = Caps(3, 7)
        /\ rules[c][1].severity = "BLOCK_ACTION"
        /\ input[c].isDeclaredDisaster = {TRUE}
        /\ Val(result[c]).isValid

\* C27: getMaximumFee and validateContract agree on the cap: where the found
\* active FEE_CAP rule of a jurisdiction is a MAX_PERCENTAGE or a DYNAMIC_CAP
\* rule, a fee percentage equal to the maxPercentage getMaximumFee returned
\* does not make that rule fire in a validateContract for the same state and
\* the same isEmergency flag, whatever the declared-disaster flag.
C27_QueryAndValidationAgreeOnCap ==
    \A c \in Calls : \A d \in Calls :
        (/\ FeeReturned(c) /\ Returned(d)
         /\ ActiveFeeCaps(c) # {}
         /\ FoundFeeCap(c).logicType \in {"MAX_PERCENTAGE", "DYNAMIC_CAP"}
         /\ toUpperCase(input[d].stateCode) = toUpperCase(input[c].stateCode)
         /\ input[d].isEmergency = input[c].isEmergency
         /\ Has(Val(result[c]).maxPercentage)
         /\ Val(Val(result[c]).maxPercentage).den = 1
         /\ input[d].feePercentage = {Val(Val(result[c]).maxPercentage).num}) =>
            /\ EntriesFor(violations[d], FoundFeeCap(c)) = {}
            /\ EntriesFor(warnings[d], FoundFeeCap(c)) = {}

\* call c is an isPublicAdjustingAllowed that has returned
AllowedReturned(c) == op[c] = "isPublicAdjustingAllowed" /\ pc[c] = "returned"

\* C28: the eligibility gate is consistent with validation: once
\* isPublicAdjustingAllowed has returned allowed = true for a state, no
\* validateContract verdict for that state holds a violation of category
\* LICENSE_RESTRICTION and severity BLOCK_ACTION that a rule specific to the
\* state (its stateCode the requested code) produced.
C28_AllowedMeansNoStateLicenseBan ==
    \A c \in Calls : \A d \in Calls :
        (/\ AllowedReturned(c) /\ Val(result[c]).allowed
         /\ Returned(d)
         /\ toUpperCase(input[d].stateCode) = toUpperCase(input[c].stateCode)) =>
            \A k \in 1..Len(Val(result[d]).violations) :
                LET v == Val(result[d]).violations[k]
                IN  ~ /\ v.category = "LICENSE_RESTRICTION"
                      /\ v.severity = "BLOCK_ACTION"
                      /\ v.stateCode = toUpperCase(input[c].stateCode)

\* the gate allows a state whose verdict holds a license ban all the same,
\* one of the default rules
C28_Witness ==
    \E c \in Calls : \E d \in Calls :
        /\ AllowedReturned(c) /\ Val(result[c]).allowed
        /\ Returned(d)
        /\ toUpperCase(input[d].stateCode) = toUpperCase(input[c].stateCode)
        /\ \E k \in 1..Len(Val(result[d]).violations) :
              LET v == Val(result[d]).violations[k]
              IN  /\ v.category = "LICENSE_RESTRICTION"
                  /\ v.severity = "BLOCK_ACTION"
                  /\ v.stateCode = "DEFAULT_GREEN"

\* the logic types whose handlers only advise
InformationalLogicTypes == {"REQUIRED_DISCLOSURE", "DYNAMIC_RESCISSION"}

\* some rule of the logic type fires on some action input
CanFire(logicType) ==
    \E r \in HandlerRules :
        /\ r.logicType = logicType
        /\ \E in \in RelevantInputs(logicType) : evaluateRule(r, in).violated

\* C29: every logic type of the schema is enforced: a rule the loop has
\* evaluated, of any of the 13 types of the enum, went to a handler of its
\* own, and unless its type is one of the two informational ones, some rule
\* of that type fires on some input.
C29_EverySchemaTypeEnforced ==
    \A c \in Calls : \A i \in Evaluated(c) :
        LET logicType == rules[c][i].logicType
        IN  logicType \in SchemaLogicTypes =>
                /\ logicType \in HandledLogicTypes
                /\ logicType \notin InformationalLogicTypes => CanFire(logicType)

\* C30: the remediation of a fired DYNAMIC_CAP rule names the cap that was
\* applied: it says 'emergency' exactly when the emergency cap was selected
\* (emergency flag or declared-disaster flag set), 'standard' exactly when the
\* standard cap was, and the percentage it quotes is the selected cap.
C30_RemediationNamesAppliedCap ==
    \A c \in Calls : \A i \in EvaluatedOf(c, "DYNAMIC_CAP", "object") :
        LET caps == rules[c][i].thresholdValue.obj
            emergencySelected == \/ input[c].isEmergency = {TRUE}
                                 \/ input[c].isDeclaredDisaster = {TRUE}
            selected == IF emergencySelected THEN caps.emergency ELSE caps.standard
        IN  Fired(c, i) =>
                \A text \in RemediationsFor(c, rules[c][i]) :
                    /\ includes(text, "emergency") <=> emergencySelected
                    /\ includes(text, "standard") <=> ~emergencySelected
                    /\ includes(text, TenthsToString(Val(selected)) \o ".0%")

====
